---- MODULE Spec2Model ----
(***************************************************************************)
(* Model of f_mp_exptmod (bn_mp_exptmod.c): the generic sliding-window     *)
(* modular exponentiation with Barrett reduction.  One action per kernel   *)
(* call or loop head of the C function; every kernel call that returns a   *)
(* status may succeed or fail with any failure status.                     *)
(***************************************************************************)
EXTENDS Integers, Sequences, FiniteSets, TLC

\* ------------------------------------------------------------- bounds
MaxG == 3
MaxP == 7
MaxX == 135
MaxUsed == 8
MaxBits == 3600

\* digit widths the library is built with (MP_8BIT: 7, MP_16BIT: 15)
DigitBits == {7, 15}

\* ------------------------------------------------------------- statuses
MP_OKAY == "MP_OKAY"
MP_MEM == "MP_MEM"
MP_VAL == "MP_VAL"
FailKinds == {MP_MEM, MP_VAL}

\* ------------------------------------------------------------- integers
Pow2(n) == 2 ^ n

RECURSIVE BitAnd(_, _)
BitAnd(a, b) ==
  IF a = 0 \/ b = 0 THEN 0
  ELSE (IF a % 2 = 1 /\ b % 2 = 1 THEN 1 ELSE 0) + 2 * BitAnd(a \div 2, b \div 2)

RECURSIVE BitOr(_, _)
BitOr(a, b) ==
  IF a = 0 THEN b
  ELSE IF b = 0 THEN a
  ELSE (IF a % 2 = 1 \/ b % 2 = 1 THEN 1 ELSE 0) + 2 * BitOr(a \div 2, b \div 2)

Shl(a, n) == a * Pow2(n)
Shr(a, n) == a \div Pow2(n)

\* ------------------------------------------------------------- mp_int
\* number of digits of width db needed for the value v (0 for v = 0)
RECURSIVE UsedDigits(_, _)
UsedDigits(v, db) == IF v = 0 THEN 0 ELSE 1 + UsedDigits(v \div Pow2(db), db)

\* a normalised mp_int: used digits, dp[0] the least significant
MkInt(v, db) ==
  [used |-> UsedDigits(v, db),
   dp |-> [i \in 0..(UsedDigits(v, db) - 1) |-> (v \div Pow2(db * i)) % Pow2(db)]]

RECURSIVE BitLen(_)
BitLen(v) == IF v = 0 THEN 0 ELSE 1 + BitLen(v \div 2)

\* kernel contracts (the kernels are external to this file)
mp_count_bits(a, db) ==
  IF a.used = 0 THEN 0 ELSE (a.used - 1) * db + BitLen(a.dp[a.used - 1])
mp_mod(a, b) == a % b
mp_sqr(a) == a * a
mp_mul(a, b) == a * b
mp_reduce(a, m) == a % m
mp_reduce_setup(m, db) == Pow2(2 * db * UsedDigits(m, db)) \div m
\* mp_digit is one bit wider than DIGIT_BIT in the 8 and 16 bit builds
DigitTypeBits(db) == db + 1

\* ------------------------------------------------------------- objects
\* an mp_int local: st is raw (uninitialised stack), live or freed;
\* inits counts the successful initialisations, clears the mp_clear calls
Raw == [st |-> "raw", v |-> 0, inits |-> 0, clears |-> 0]
mp_init(o, val) == [o EXCEPT !.st = "live", !.v = val, !.inits = @ + 1]
mp_clear(o) == [o EXCEPT !.st = "freed", !.v = 0, !.clears = @ + 1]

NoFail == [op |-> "none", status |-> MP_OKAY]

\* no loop iteration has run yet: kind of the iteration, res and the length
\* of trace when it began, the window (bitbuf) and its bit count (bitcpy)
NoMark == [kind |-> "none", r |-> 0, len |-> 0, val |-> 0, n |-> 0]

\* mp_exptmod has not been entered
NoDisp == [pc |-> "idle"]

\* ------------------------------------------------------------- window size
WinSize_lt(b) ==
  IF b < 7 THEN 2 ELSE IF b <= 36 THEN 3 ELSE IF b <= 140 THEN 4
  ELSE IF b <= 450 THEN 5 ELSE IF b <= 1303 THEN 6 ELSE IF b <= 3529 THEN 7 ELSE 8

WinSize(b) ==
  IF b <= 7 THEN 2 ELSE IF b <= 36 THEN 3 ELSE IF b <= 140 THEN 4
  ELSE IF b <= 450 THEN 5 ELSE IF b <= 1303 THEN 6 ELSE IF b <= 3529 THEN 7 ELSE 8

VARIABLES
  G, X, P, Y, DIGIT_BIT,       \* the arguments and the build's digit width
  M, res, mu,                  \* mp_int M[256], res, mu
  buf, err, bitbuf, bitcpy, bitcnt, mode, digidx, x, y, winsize,
  pc, ret,                     \* position in the function, returned status
  Y0,                          \* value of Y at entry
  fail,                        \* the first kernel failure: where and status
  late,                        \* arithmetic kernel calls made after a failure
  reads,                       \* table slots read as operands
  trace,                       \* operations applied to res, in order
  nbits,                       \* exponent bits extracted so far
  seen,                        \* value of the exponent bits extracted so far
  nwin,                        \* windows that reached winsize bits
  mark,                        \* what the last loop iteration started from
  disp                         \* the call of mp_exptmod (the dispatcher)

args == <<G, X, P, DIGIT_BIT, Y0>>
scanv == <<buf, bitbuf, bitcpy, bitcnt, mode, digidx>>
hist == <<fail, late, reads, trace>>
scanh == <<nbits, seen, nwin, mark>>
vars == <<G, X, P, Y, DIGIT_BIT, M, res, mu, buf, err, bitbuf, bitcpy, bitcnt,
          mode, digidx, x, y, winsize, pc, ret, Y0, fail, late, reads, trace,
          nbits, seen, nwin, mark, disp>>

XVal == IF X.used = 0 THEN 0
        ELSE LET RECURSIVE Sum(_)
                 Sum(i) == IF i < 0 THEN 0 ELSE X.dp[i] * Pow2(DIGIT_BIT * i) + Sum(i - 1)
             IN Sum(X.used - 1)

\* the locals of f_mp_exptmod at entry, and the empty records of its run
Entry ==
  /\ Y0 = Y
  /\ M = [k \in {} |-> Raw]
  /\ res = Raw
  /\ mu = Raw
  /\ buf = 0 /\ err = MP_OKAY /\ bitbuf = 0 /\ bitcpy = 0 /\ bitcnt = 0
  /\ mode = 0 /\ digidx = 0 /\ x = 0 /\ y = 0 /\ winsize = 0
  /\ pc = "start"
  /\ ret = "none"
  /\ fail = NoFail
  /\ late = 0
  /\ reads = {}
  /\ trace = << >>
  /\ nbits = 0 /\ seen = 0 /\ nwin = 0
  /\ mark = NoMark

Init ==
  /\ DIGIT_BIT \in DigitBits
  /\ G \in 0..MaxG
  /\ P \in 1..MaxP
  /\ \E xv \in 0..MaxX : X = MkInt(xv, DIGIT_BIT)
  /\ Y \in {MaxP + 1}
  /\ Entry
  /\ disp = NoDisp

\* ------------------------------------------------------------- helpers
TabSize == Pow2(winsize)
Mid == Pow2(winsize - 1)

\* a kernel call made at the current position fails with status e
Failed(e, label) ==
  /\ err' = e
  /\ pc' = label
  /\ fail' = IF fail.op = "none" THEN [op |-> pc, status |-> e] ELSE fail

\* bookkeeping of one arithmetic kernel call
Call == late' = IF fail.op = "none" THEN late ELSE late + 1

\* goto targets of the failing kernel calls
MuInitFail_MU == "__MU"
MuInitFail == "__M"
BuildFail_RES == "__RES"
BuildFail == "__MU"
ScanFail_exch == "exch"
ScanFail == "__RES"
WinMulFail_continue == "scan"
WinMulFail == "__MU"

\* slots cleared when mp_init_size fails for slot k (lines 66-68)
ClearedOnInitFail_incl(k) == 0..k
ClearedOnInitFail(k) == 0..(k - 1)

\* number of squarings that produce M[1 << (winsize-1)] (line 96)
MidSquarings_w(w) == w
MidSquarings(w) == w - 1

\* buf = X->dp[digidx--] (line 135): the next digit index
DigitStep_stay(d) == d
DigitStep(d) == d - 1

\* y = (buf >> (DIGIT_BIT - 1)) & 1 (line 140)
TopBit_above(b, db) == BitAnd(Shr(b, db), 1)
TopBit(b, db) == BitAnd(Shr(b, db - 1), 1)

\* the values of mode (lines 122, 188, 164)
SkipMode == 0
SquaringMode == 1
AccMode_sq == SquaringMode
AccMode == 2

\* mode = 1 after a full window (line 188)
ModeAfterWindow_skip == SkipMode
ModeAfterWindow == SquaringMode

\* squarings of a full window: for (x = 0; x < winsize; x++) (line 169)
WinSquarings_short(w) == w - 1
WinSquarings_long(w) == w + 1
WinSquarings(w) == w

\* (bitbuf & (1 << winsize)) of the flush (line 204), bb the shifted bitbuf
FlushBit_unshifted(bb, w) == BitAnd(bb, Shl(1, w + 1))
FlushBit(bb, w) == BitAnd(bb, Shl(1, w))

\* bitbuf |= (y << (winsize - ++bitcpy)), bc the incremented bitcpy
WindowOr_low(bb, yy, w, bc) == BitOr(bb, Shl(yy, bc - 1))
WindowOr_top(bb, yy, w, bc) == BitOr(bb, Shl(yy, w - 1))
WindowOr(bb, yy, w, bc) == BitOr(bb, Shl(yy, w - bc))

\* ------------------------------------------------------------- actions
\* lines 46-61 and the loop initialisation of line 64
FindWindowSize ==
  /\ pc = "start"
  /\ winsize' = WinSize(mp_count_bits(X, DIGIT_BIT))
  /\ M' = [k \in 0..(Pow2(winsize') - 1) |-> Raw]
  /\ x' = 0
  /\ pc' = "init_M"
  /\ UNCHANGED <<scanh, disp, args, Y, res, mu, scanv, err, y, ret, hist>>

\* lines 64-71: one iteration of the slot allocation loop
InitSlot ==
  /\ pc = "init_M"
  /\ x < TabSize
  /\ Call
  /\ \/ /\ M' = [M EXCEPT ![x] = mp_init(@, 0)]
        /\ x' = x + 1
        /\ pc' = IF x + 1 < TabSize THEN "init_M" ELSE "init_mu"
        /\ UNCHANGED <<err, y, ret, fail>>
     \/ \E e \in FailKinds :
        /\ Failed(e, "done")
        /\ M' = [k \in DOMAIN M |->
                   IF k \in ClearedOnInitFail(x) THEN mp_clear(M[k]) ELSE M[k]]
        /\ y' = x
        /\ ret' = e
        /\ UNCHANGED x
  /\ UNCHANGED <<scanh, disp, args, Y, res, mu, scanv, winsize, reads, trace>>

\* line 74
InitMu ==
  /\ pc = "init_mu"
  /\ Call
  /\ \/ /\ mu' = mp_init(mu, 0)
        /\ pc' = "reduce_setup"
        /\ UNCHANGED <<err, fail>>
     \/ \E e \in FailKinds : Failed(e, MuInitFail) /\ UNCHANGED mu
  /\ UNCHANGED <<scanh, disp, args, Y, M, res, scanv, x, y, winsize, ret, reads, trace>>

\* line 77
ReduceSetup ==
  /\ pc = "reduce_setup"
  /\ Call
  /\ \/ /\ mu' = [mu EXCEPT !.v = mp_reduce_setup(P, DIGIT_BIT)]
        /\ pc' = "mod"
        /\ UNCHANGED <<err, fail>>
     \/ \E e \in FailKinds : Failed(e, BuildFail) /\ UNCHANGED mu
  /\ UNCHANGED <<scanh, disp, args, Y, M, res, scanv, x, y, winsize, ret, reads, trace>>

\* line 87
Mod ==
  /\ pc = "mod"
  /\ Call
  /\ \/ /\ M' = [M EXCEPT ![1].v = mp_mod(G, P)]
        /\ pc' = "copy"
        /\ UNCHANGED <<err, fail>>
     \/ \E e \in FailKinds : Failed(e, BuildFail) /\ UNCHANGED M
  /\ UNCHANGED <<scanh, disp, args, Y, res, mu, scanv, x, y, winsize, ret, reads, trace>>

\* line 92 and the loop initialisation of line 96
Copy ==
  /\ pc = "copy"
  /\ Call
  /\ \/ /\ M' = [M EXCEPT ![Mid].v = M[1].v]
        /\ reads' = reads \cup {1}
        /\ x' = IF 0 < MidSquarings(winsize) THEN 0 ELSE Mid + 1
        /\ pc' = IF 0 < MidSquarings(winsize) THEN "mid_sqr"
                 ELSE IF Mid + 1 < TabSize THEN "up_mul" ELSE "init_res"
        /\ UNCHANGED <<err, fail>>
     \/ \E e \in FailKinds : Failed(e, BuildFail) /\ UNCHANGED <<M, reads, x>>
  /\ UNCHANGED <<scanh, disp, args, Y, res, mu, scanv, y, winsize, ret, trace>>

\* line 97
MidSqr ==
  /\ pc = "mid_sqr"
  /\ Call
  /\ \/ /\ M' = [M EXCEPT ![Mid].v = mp_sqr(M[Mid].v)]
        /\ reads' = reads \cup {Mid}
        /\ pc' = "mid_reduce"
        /\ UNCHANGED <<err, fail>>
     \/ \E e \in FailKinds : Failed(e, BuildFail) /\ UNCHANGED <<M, reads>>
  /\ UNCHANGED <<scanh, disp, args, Y, res, mu, scanv, x, y, winsize, ret, trace>>

\* line 100, the loop step of line 96 and the loop initialisation of line 106
MidReduce ==
  /\ pc = "mid_reduce"
  /\ Call
  /\ \/ /\ M' = [M EXCEPT ![Mid].v = mp_reduce(M[Mid].v, P)]
        /\ reads' = reads \cup {Mid}
        /\ x' = IF x + 1 < MidSquarings(winsize) THEN x + 1 ELSE Mid + 1
        /\ pc' = IF x + 1 < MidSquarings(winsize) THEN "mid_sqr"
                 ELSE IF Mid + 1 < TabSize THEN "up_mul" ELSE "init_res"
        /\ UNCHANGED <<err, fail>>
     \/ \E e \in FailKinds : Failed(e, BuildFail) /\ UNCHANGED <<M, reads, x>>
  /\ UNCHANGED <<scanh, disp, args, Y, res, mu, scanv, y, winsize, ret, trace>>

\* line 107
UpMul ==
  /\ pc = "up_mul"
  /\ Call
  /\ \/ /\ M' = [M EXCEPT ![x].v = mp_mul(M[x - 1].v, M[1].v)]
        /\ reads' = reads \cup {x - 1, 1}
        /\ pc' = "up_reduce"
        /\ UNCHANGED <<err, fail>>
     \/ \E e \in FailKinds : Failed(e, BuildFail) /\ UNCHANGED <<M, reads>>
  /\ UNCHANGED <<scanh, disp, args, Y, res, mu, scanv, x, y, winsize, ret, trace>>

\* line 110 and the loop step of line 106
UpReduce ==
  /\ pc = "up_reduce"
  /\ Call
  /\ \/ /\ M' = [M EXCEPT ![x].v = mp_reduce(M[x].v, P)]
        /\ reads' = reads \cup {x}
        /\ x' = x + 1
        /\ pc' = IF x + 1 < TabSize THEN "up_mul" ELSE "init_res"
        /\ UNCHANGED <<err, fail>>
     \/ \E e \in FailKinds : Failed(e, BuildFail) /\ UNCHANGED <<M, reads, x>>
  /\ UNCHANGED <<scanh, disp, args, Y, res, mu, scanv, y, winsize, ret, trace>>

\* lines 116-128: mp_init and mp_set of res, then the scan variables
InitRes ==
  /\ pc = "init_res"
  /\ Call
  /\ \/ /\ res' = mp_init(res, 1)
        /\ mode' = SkipMode
        /\ buf' = 0
        /\ digidx' = X.used - 1
        /\ bitcpy' = 0
        /\ bitbuf' = 0
        /\ bitcnt' = 1
        /\ pc' = "scan"
        /\ UNCHANGED <<err, fail>>
     \/ \E e \in FailKinds : Failed(e, BuildFail) /\ UNCHANGED <<res, scanv>>
  /\ UNCHANGED <<scanh, disp, args, Y, M, mu, x, y, winsize, ret, reads, trace>>

\* lines 131-137 with the break taken, and the test of line 193
ScanEnd ==
  /\ pc = "scan"
  /\ bitcnt - 1 = 0
  /\ digidx = -1
  /\ bitcnt' = 0
  /\ IF mode = 2 /\ bitcpy > 0
     THEN /\ x' = 0 /\ pc' = "fl_sqr"
          /\ mark' = [kind |-> "flush", r |-> res.v, len |-> Len(trace),
                      val |-> bitbuf, n |-> bitcpy]
     ELSE x' = x /\ pc' = "exch" /\ mark' = mark
  /\ UNCHANGED <<nbits, seen, nwin, disp, args, Y, M, res, mu, buf, bitbuf, bitcpy,
                 mode, digidx, err, y, winsize, ret, hist>>

\* lines 131-166: fetch the next exponent bit and dispatch on it
ScanBit ==
  /\ pc = "scan"
  /\ ~(bitcnt - 1 = 0 /\ digidx = -1)
  /\ LET fetch == bitcnt - 1 = 0
         b0 == IF fetch THEN X.dp[digidx] ELSE buf
         yy == TopBit(b0, DIGIT_BIT)
         here(k, bb, bc) == [kind |-> k, r |-> res.v, len |-> Len(trace),
                             val |-> bb, n |-> bc]
     IN /\ digidx' = IF fetch THEN DigitStep(digidx) ELSE digidx
        /\ nbits' = nbits + 1
        /\ seen' = 2 * seen + yy
        /\ bitcnt' = IF fetch THEN DIGIT_BIT ELSE bitcnt - 1
        /\ buf' = Shl(b0, 1) % Pow2(DigitTypeBits(DIGIT_BIT))
        /\ y' = yy
        /\ IF mode = 0 /\ yy = 0
           THEN /\ pc' = "scan"
                /\ mark' = here("skip", bitbuf, bitcpy)
                /\ UNCHANGED <<bitbuf, bitcpy, mode, x, nwin>>
           ELSE IF mode = 1 /\ yy = 0
           THEN /\ pc' = "sq_sqr"
                /\ mark' = here("sq", bitbuf, bitcpy)
                /\ UNCHANGED <<bitbuf, bitcpy, mode, x, nwin>>
           ELSE /\ bitcpy' = bitcpy + 1
                /\ bitbuf' = WindowOr(bitbuf, yy, winsize, bitcpy + 1)
                /\ mode' = AccMode
                /\ IF bitcpy + 1 = winsize
                   THEN /\ pc' = IF 0 < WinSquarings(winsize) THEN "win_sqr"
                                 ELSE "win_mul"
                        /\ x' = 0
                        /\ nwin' = nwin + 1
                        /\ mark' = here("win", bitbuf', bitcpy')
                   ELSE /\ x' = x /\ pc' = "scan"
                        /\ nwin' = nwin
                        /\ mark' = here("acc", bitbuf', bitcpy')
  /\ UNCHANGED <<disp, args, Y, M, res, mu, err, winsize, ret, hist>>

\* line 153
SqSqr ==
  /\ pc = "sq_sqr"
  /\ Call
  /\ \/ /\ res' = [res EXCEPT !.v = mp_sqr(res.v)]
        /\ trace' = Append(trace, <<"sqr", 0>>)
        /\ pc' = "sq_reduce"
        /\ UNCHANGED <<err, fail>>
     \/ \E e \in FailKinds : Failed(e, ScanFail) /\ UNCHANGED <<res, trace>>
  /\ UNCHANGED <<scanh, disp, args, Y, M, mu, scanv, x, y, winsize, ret, reads>>

\* line 156
SqReduce ==
  /\ pc = "sq_reduce"
  /\ Call
  /\ \/ /\ res' = [res EXCEPT !.v = mp_reduce(res.v, P)]
        /\ trace' = Append(trace, <<"reduce", 0>>)
        /\ pc' = "scan"
        /\ UNCHANGED <<err, fail>>
     \/ \E e \in FailKinds : Failed(e, ScanFail) /\ UNCHANGED <<res, trace>>
  /\ UNCHANGED <<scanh, disp, args, Y, M, mu, scanv, x, y, winsize, ret, reads>>

\* line 170
WinSqr ==
  /\ pc = "win_sqr"
  /\ Call
  /\ \/ /\ res' = [res EXCEPT !.v = mp_sqr(res.v)]
        /\ trace' = Append(trace, <<"sqr", 0>>)
        /\ pc' = "win_reduce"
        /\ UNCHANGED <<err, fail>>
     \/ \E e \in FailKinds : Failed(e, ScanFail) /\ UNCHANGED <<res, trace>>
  /\ UNCHANGED <<scanh, disp, args, Y, M, mu, scanv, x, y, winsize, ret, reads>>

\* line 173 and the loop step of line 169
WinReduce ==
  /\ pc = "win_reduce"
  /\ Call
  /\ \/ /\ res' = [res EXCEPT !.v = mp_reduce(res.v, P)]
        /\ trace' = Append(trace, <<"reduce", 0>>)
        /\ x' = x + 1
        /\ pc' = IF x + 1 < WinSquarings(winsize) THEN "win_sqr" ELSE "win_mul"
        /\ UNCHANGED <<err, fail>>
     \/ \E e \in FailKinds : Failed(e, ScanFail) /\ UNCHANGED <<res, trace, x>>
  /\ UNCHANGED <<scanh, disp, args, Y, M, mu, scanv, y, winsize, ret, reads>>

\* line 179
WinMul ==
  /\ pc = "win_mul"
  /\ Call
  /\ \/ /\ res' = [res EXCEPT !.v = mp_mul(res.v, M[bitbuf].v)]
        /\ reads' = reads \cup {bitbuf}
        /\ trace' = Append(trace, <<"mul", bitbuf>>)
        /\ pc' = "win_mul_reduce"
        /\ UNCHANGED <<err, fail>>
     \/ \E e \in FailKinds : Failed(e, WinMulFail) /\ UNCHANGED <<res, reads, trace>>
  /\ UNCHANGED <<scanh, disp, args, Y, M, mu, scanv, x, y, winsize, ret>>

\* lines 182-188
WinMulReduce ==
  /\ pc = "win_mul_reduce"
  /\ Call
  /\ \/ /\ res' = [res EXCEPT !.v = mp_reduce(res.v, P)]
        /\ trace' = Append(trace, <<"reduce", 0>>)
        /\ bitcpy' = 0
        /\ bitbuf' = 0
        /\ mode' = ModeAfterWindow
        /\ pc' = "scan"
        /\ UNCHANGED <<err, fail>>
     \/ \E e \in FailKinds :
        Failed(e, WinMulFail) /\ UNCHANGED <<res, trace, bitcpy, bitbuf, mode>>
  /\ UNCHANGED <<scanh, disp, args, Y, M, mu, buf, bitcnt, digidx, x, y, winsize, ret, reads>>

\* line 196
FlSqr ==
  /\ pc = "fl_sqr"
  /\ Call
  /\ \/ /\ res' = [res EXCEPT !.v = mp_sqr(res.v)]
        /\ trace' = Append(trace, <<"sqr", 0>>)
        /\ pc' = "fl_reduce"
        /\ UNCHANGED <<err, fail>>
     \/ \E e \in FailKinds : Failed(e, ScanFail) /\ UNCHANGED <<res, trace>>
  /\ UNCHANGED <<scanh, disp, args, Y, M, mu, scanv, x, y, winsize, ret, reads>>

\* lines 199-204, and the loop step of line 195 when the shifted bit is 0
FlReduce ==
  /\ pc = "fl_reduce"
  /\ Call
  /\ \/ /\ res' = [res EXCEPT !.v = mp_reduce(res.v, P)]
        /\ trace' = Append(trace, <<"reduce", 0>>)
        /\ bitbuf' = Shl(bitbuf, 1)
        /\ IF FlushBit(bitbuf', winsize) # 0
           THEN x' = x /\ pc' = "fl_mul"
           ELSE x' = x + 1 /\ pc' = IF x + 1 < bitcpy THEN "fl_sqr" ELSE "exch"
        /\ UNCHANGED <<err, fail>>
     \/ \E e \in FailKinds : Failed(e, ScanFail) /\ UNCHANGED <<res, trace, bitbuf, x>>
  /\ UNCHANGED <<scanh, disp, args, Y, M, mu, buf, bitcpy, bitcnt, mode, digidx, y, winsize,
                 ret, reads>>

\* line 206
FlMul ==
  /\ pc = "fl_mul"
  /\ Call
  /\ \/ /\ res' = [res EXCEPT !.v = mp_mul(res.v, M[1].v)]
        /\ reads' = reads \cup {1}
        /\ trace' = Append(trace, <<"mul", 1>>)
        /\ pc' = "fl_mul_reduce"
        /\ UNCHANGED <<err, fail>>
     \/ \E e \in FailKinds : Failed(e, ScanFail) /\ UNCHANGED <<res, reads, trace>>
  /\ UNCHANGED <<scanh, disp, args, Y, M, mu, scanv, x, y, winsize, ret>>

\* line 209 and the loop step of line 195
FlMulReduce ==
  /\ pc = "fl_mul_reduce"
  /\ Call
  /\ \/ /\ res' = [res EXCEPT !.v = mp_reduce(res.v, P)]
        /\ trace' = Append(trace, <<"reduce", 0>>)
        /\ x' = x + 1
        /\ pc' = IF x + 1 < bitcpy THEN "fl_sqr" ELSE "exch"
        /\ UNCHANGED <<err, fail>>
     \/ \E e \in FailKinds : Failed(e, ScanFail) /\ UNCHANGED <<res, trace, x>>
  /\ UNCHANGED <<scanh, disp, args, Y, M, mu, scanv, y, winsize, ret, reads>>

\* lines 216-217: mp_exch (&res, Y); err = MP_OKAY
Exch ==
  /\ pc = "exch"
  /\ Y' = res.v
  /\ res' = [res EXCEPT !.v = Y]
  /\ err' = MP_OKAY
  /\ pc' = "__RES"
  /\ UNCHANGED <<scanh, disp, args, M, mu, scanv, x, y, winsize, ret, hist>>

\* line 218
ClearRes ==
  /\ pc = "__RES"
  /\ res' = mp_clear(res)
  /\ pc' = "__MU"
  /\ UNCHANGED <<scanh, disp, args, Y, M, mu, scanv, err, x, y, winsize, ret, hist>>

\* line 219
ClearMu ==
  /\ pc = "__MU"
  /\ mu' = mp_clear(mu)
  /\ pc' = "__M"
  /\ UNCHANGED <<scanh, disp, args, Y, M, res, scanv, err, x, y, winsize, ret, hist>>

\* lines 221-224: clear the 2^winsize slots and return err
ClearM ==
  /\ pc = "__M"
  /\ M' = [k \in DOMAIN M |-> mp_clear(M[k])]
  /\ x' = TabSize
  /\ ret' = err
  /\ pc' = "done"
  /\ UNCHANGED <<scanh, disp, args, Y, res, mu, scanv, err, y, winsize, hist>>

Next ==
  \/ FindWindowSize \/ InitSlot \/ InitMu \/ ReduceSetup \/ Mod \/ Copy
  \/ MidSqr \/ MidReduce \/ UpMul \/ UpReduce \/ InitRes
  \/ ScanEnd \/ ScanBit \/ SqSqr \/ SqReduce
  \/ WinSqr \/ WinReduce \/ WinMul \/ WinMulReduce
  \/ FlSqr \/ FlReduce \/ FlMul \/ FlMulReduce
  \/ Exch \/ ClearRes \/ ClearMu \/ ClearM

Spec == Init /\ [][Next]_vars

\* ------------------------------------------------------------- reference
\* naive right-to-left square-and-multiply, one exponent bit per step
RECURSIVE NaiveExptMod(_, _, _)
NaiveExptMod(g, e, p) ==
  IF e = 0 THEN 1 % p
  ELSE LET h == NaiveExptMod(g, e \div 2, p)
       IN IF e % 2 = 1 THEN (((h * h) % p) * (g % p)) % p ELSE (h * h) % p

TypeOK ==
  /\ pc \in {"start", "init_M", "init_mu", "reduce_setup", "mod", "copy", "mid_sqr",
             "mid_reduce", "up_mul", "up_reduce", "init_res", "scan", "sq_sqr",
             "sq_reduce", "win_sqr", "win_reduce", "win_mul", "win_mul_reduce",
             "fl_sqr", "fl_reduce", "fl_mul", "fl_mul_reduce", "exch", "__RES",
             "__MU", "__M", "done"}
  /\ mode \in 0..2
  /\ XVal \in 0..MaxX

\* ------------------------------------------------------------- claims
BuildOps == {"init_mu", "reduce_setup", "mod", "copy", "mid_sqr", "mid_reduce",
             "up_mul", "up_reduce", "init_res"}
ScanOps == {"sq_sqr", "sq_reduce", "win_sqr", "win_reduce", "win_mul",
            "win_mul_reduce", "fl_sqr", "fl_reduce", "fl_mul", "fl_mul_reduce"}
CleanupPcs == {"__RES", "__MU", "__M", "done"}

Returned == pc = "done"
ReleasedOnce(o) == o.st = "freed" /\ o.inits = 1 /\ o.clears = 1
AllSlotsReleased ==
  /\ DOMAIN M = 0..(Pow2(winsize) - 1)
  /\ \A k \in DOMAIN M : ReleasedOnce(M[k])

\* g^k mod p by k repeated multiplications
RECURSIVE PowMod(_, _, _)
PowMod(g, k, p) == IF k = 0 THEN 1 % p ELSE (PowMod(g, k - 1, p) * g) % p

\* C1: when no kernel operation fails, the call returns MP_OKAY and Y is
\* G^X mod P as computed by the naive square-and-multiply reference.
C1_AgreesWithNaive ==
  (Returned /\ fail.op = "none") =>
    (ret = MP_OKAY /\ Y \in 0..(P - 1) /\ Y = NaiveExptMod(G, XVal, P))

\* C2: a kernel failure during the exponent scan or the flush leaves res, mu
\* and every table slot released by the time the call returns.
C2_ScanFailureReleasesAll ==
  (Returned /\ fail.op \in ScanOps) =>
    (ReleasedOnce(res) /\ ReleasedOnce(mu) /\ AllSlotsReleased)

\* C3: no object is cleared more often than it was initialised, none more
\* than once, and a successful return has released every slot, mu and res
\* exactly once.
C3_NoDoubleNoStrayRelease ==
  /\ res.clears <= res.inits /\ res.inits <= 1
  /\ mu.clears <= mu.inits /\ mu.inits <= 1
  /\ \A k \in DOMAIN M : M[k].clears <= M[k].inits /\ M[k].inits <= 1
  /\ (Returned /\ ret = MP_OKAY) =>
       (ReleasedOnce(res) /\ ReleasedOnce(mu) /\ AllSlotsReleased)

C3_Witness ==
  /\ Returned /\ ret = MP_OKAY /\ winsize = 3
  /\ ReleasedOnce(res) /\ ReleasedOnce(mu) /\ AllSlotsReleased

\* C4: Y differs from its entry value only after the final exchange of a run
\* without failure, and a call that returns a failure leaves Y as it was.
C4_OutputOnlyOnSuccess ==
  /\ (Y # Y0) => (fail.op = "none" /\ pc \in CleanupPcs /\ err = MP_OKAY)
  /\ (Returned /\ ret # MP_OKAY) => Y = Y0

C4_Witness ==
  /\ Returned /\ ret # MP_OKAY /\ fail.op = "fl_mul_reduce"
  /\ Len(trace) > 3 /\ Y = Y0

\* C5: after the first failing kernel call no further kernel call is made,
\* control is in the cleanup, err keeps that call's status and the call
\* returns it; MP_OKAY is returned only when nothing failed.
C5_FailureStopsAndPropagates ==
  /\ late = 0
  /\ (fail.op # "none") =>
       (pc \in CleanupPcs /\ err = fail.status /\ fail.status \in FailKinds)
  /\ Returned => ret = fail.status
  /\ (Returned /\ ret = MP_OKAY) => fail.op = "none"

C5_Witness ==
  Returned /\ fail.op = "win_reduce" /\ fail.status = MP_VAL /\ ret = MP_VAL

\* C6: when mp_init_size fails for slot k, exactly the slots 0..k-1 are
\* released, mu and res are untouched, no arithmetic is done and the failure
\* status is returned.
C6_SlotInitFailure ==
  (Returned /\ fail.op = "init_M") =>
    /\ \A j \in DOMAIN M :
         IF j < x THEN ReleasedOnce(M[j]) ELSE M[j] = Raw
    /\ mu = Raw /\ res = Raw
    /\ reads = {} /\ trace = << >> /\ late = 0
    /\ ret = fail.status /\ ret \in FailKinds

C6_Witness ==
  /\ Returned /\ fail.op = "init_M" /\ x = 2 /\ winsize = 3
  /\ ReleasedOnce(M[0]) /\ ReleasedOnce(M[1]) /\ M[2] = Raw

\* C7: a failure after the slot allocation and before the scan leaves all
\* 2^winsize slots released, mu released exactly when its initialisation
\* had succeeded, res never acquired, and the failure is returned.
C7_BuildFailure ==
  (Returned /\ fail.op \in BuildOps) =>
    /\ AllSlotsReleased
    /\ (fail.op = "init_mu") <=> (mu.inits = 0)
    /\ (mu.clears = 1) <=> (mu.inits = 1)
    /\ res = Raw
    /\ ret = fail.status /\ ret \in FailKinds

C7_Witness ==
  /\ Returned /\ fail.op = "init_mu" /\ mu = Raw /\ AllSlotsReleased

\* C8: for X = 0 a run without failure returns MP_OKAY with Y = 1 mod P,
\* that is 1 for P > 1 and 0 for P = 1.
C8_ZeroExponent ==
  (Returned /\ fail.op = "none" /\ XVal = 0) =>
    (ret = MP_OKAY /\ Y = (IF P > 1 THEN 1 ELSE 0))

\* C9: from the end of a successful table build until the table is cleared,
\* M[1] = G mod P and M[k] = G^k mod P for every k in 2^(w-1) .. 2^w - 1.
TableBuilt ==
  /\ pc # "done"
  /\ pc = "init_res" \/ res.inits > 0 \/ fail.op = "init_res"

C9_TableHoldsPowers ==
  TableBuilt =>
    /\ M[1].v = G % P
    /\ M[Mid].v = PowMod(G, Pow2(winsize - 1), P)
    /\ \A k \in Mid..(TabSize - 1) : M[k].v = PowMod(G, k, P)

C9_Witness ==
  /\ pc = "win_mul_reduce" /\ winsize = 3 /\ G = 3 /\ P = 7
  /\ M[7].v = 3 /\ M[4].v = 4 /\ M[1].v = 3

\* C10: a full-window lookup uses an index in 2^(w-1) .. 2^w - 1 (an open
\* window has its top bit set), the flush multiplies by M[1] only, and the
\* only slots ever read as operands are 1 and 2^(w-1) .. 2^w - 1.
C10_OnlyComputedSlotsRead ==
  (pc # "start") =>
    /\ (pc = "win_mul") => bitbuf \in Mid..(TabSize - 1)
    /\ (pc \in {"scan", "win_sqr", "win_reduce"} /\ bitcpy > 0) =>
         bitbuf \in Mid..(TabSize - 1)
    /\ (pc = "win_mul_reduce" /\ fail.op = "none") =>
         (trace[Len(trace)][1] = "mul" /\ trace[Len(trace)][2] \in Mid..(TabSize - 1))
    /\ (pc = "fl_mul_reduce" /\ fail.op = "none") => trace[Len(trace)] = <<"mul", 1>>
    /\ reads \subseteq ({1} \cup Mid..(TabSize - 1))
    /\ \A i \in DOMAIN trace :
         (trace[i][1] = "mul") => trace[i][2] \in ({1} \cup Mid..(TabSize - 1))

C10_Witness ==
  /\ pc = "win_mul_reduce" /\ winsize = 3
  /\ trace[Len(trace)] = <<"mul", 5>> /\ 5 \in reads

\* ------------------------------------------------------------- mp_exptmod
\* values of MONTGOMERY_EXPT_CUTOFF (a build option of tommath.h)
Cutoffs == {6, 74}
Statuses == {MP_OKAY} \cup FailKinds
\* values an engine may leave in Y
EngineOutputs == 0..1

\* the test of line 31: odd is mp_isodd (P), used is P->used
FastCond_prec(odd, used, dr, cutoff) ==
  (odd = 1 /\ used < cutoff) \/ (dr = 1 /\ used > 4)
FastCond(odd, used, dr, cutoff) ==
  ((odd = 1 /\ used < cutoff) \/ dr = 1) /\ used > 4

\* entry of mp_exptmod: P is read through P->used, mp_isodd (P) and
\* mp_dr_is_modulus (P) only; a diminished radix modulus has two digits or more
DispInit ==
  /\ G \in 0..MaxG /\ P = 1 /\ DIGIT_BIT = 7 /\ X = MkInt(0, DIGIT_BIT)
  /\ Y \in {MaxP + 1}
  /\ Entry
  /\ \E u \in 1..MaxUsed, o \in 0..1, d \in 0..1, c \in Cutoffs :
       /\ d = 1 => u >= 2
       /\ disp = [pc |-> "entry", used |-> u, odd |-> o, isdr |-> d, cutoff |-> c,
                  dr |-> 0, calls |-> << >>, est |-> "none", ret |-> "none"]

engine == <<G, X, P, DIGIT_BIT, Y0, M, res, mu, buf, err, bitbuf, bitcpy, bitcnt,
            mode, digidx, x, y, winsize, pc, ret, fail, late, reads, trace,
            nbits, seen, nwin, mark>>

\* lines 29-31: dr = mp_dr_is_modulus (P) and the test
Dispatch ==
  /\ disp.pc = "entry"
  /\ disp' = [disp EXCEPT
       !.dr = disp.isdr,
       !.pc = IF FastCond(disp.odd, disp.used, disp.isdr, disp.cutoff)
              THEN "call_fast" ELSE "call_generic"]
  /\ UNCHANGED <<engine, Y>>

\* line 32: return mp_exptmod_fast (G, X, P, Y, dr); the engine is external
MpExptmodFast ==
  /\ disp.pc = "call_fast"
  /\ \E st \in Statuses, out \in EngineOutputs :
       /\ Y' = IF st = MP_OKAY THEN out ELSE Y
       /\ disp' = [disp EXCEPT
            !.calls = Append(@, [engine |-> "mp_exptmod_fast", dr |-> disp.dr]),
            !.est = st, !.ret = st, !.pc = "returned"]
  /\ UNCHANGED engine

\* line 34: return f_mp_exptmod (G, X, P, Y); the engine as one step
FMpExptmod ==
  /\ disp.pc = "call_generic"
  /\ \E st \in Statuses, out \in EngineOutputs :
       /\ Y' = IF st = MP_OKAY THEN out ELSE Y
       /\ disp' = [disp EXCEPT
            !.calls = Append(@, [engine |-> "f_mp_exptmod", dr |-> 0]),
            !.est = st, !.ret = st, !.pc = "returned"]
  /\ UNCHANGED engine

DispNext == Dispatch \/ MpExptmodFast \/ FMpExptmod

DispatchSpec == DispInit /\ [][DispNext]_vars

C12_State ==
  /\ Len(disp.calls) <= 1
  /\ (disp.pc # "returned") => (disp.calls = << >> /\ Y = Y0 /\ disp.ret = "none")
  /\ (disp.pc = "returned") =>
       /\ Len(disp.calls) = 1
       /\ disp.ret = disp.est
       /\ disp.calls[1].engine =
            IF /\ \/ (disp.odd = 1 /\ disp.used < disp.cutoff)
                  \/ disp.isdr = 1
               /\ disp.used > 4
            THEN "mp_exptmod_fast" ELSE "f_mp_exptmod"
       /\ (disp.calls[1].engine = "mp_exptmod_fast") => disp.calls[1].dr = disp.isdr

C12_Step ==
  /\ UNCHANGED <<G, X, P>>
  /\ (Y' # Y) => (disp.pc \in {"call_fast", "call_generic"} /\ disp'.pc = "returned")

\* C12: mp_exptmod calls exactly one engine and returns its status: the
\* fast engine exactly when ((P is odd and P->used < MONTGOMERY_EXPT_CUTOFF)
\* or P is a diminished radix modulus) and P->used > 4, else f_mp_exptmod;
\* G, X and P never change and Y changes only inside the engine.
C12_Dispatch == []C12_State /\ [][C12_Step]_vars

C12_Witness ==
  /\ disp.pc = "returned" /\ disp.calls[1].engine = "mp_exptmod_fast"
  /\ disp.isdr = 1 /\ disp.odd = 0 /\ disp.used = 7 /\ disp.cutoff = 6
  /\ disp.ret = MP_MEM /\ Y = Y0

\* ------------------------------------------------------------- long exponents
\* the window sizes of the claimed step function, by largest bit length
StepTable == << <<7, 2>>, <<36, 3>>, <<140, 4>>, <<450, 5>>, <<1303, 6>>, <<3529, 7>> >>
StepOf(b) ==
  IF \E i \in DOMAIN StepTable : b <= StepTable[i][1]
  THEN StepTable[CHOOSE i \in DOMAIN StepTable :
                   /\ b <= StepTable[i][1]
                   /\ \A j \in DOMAIN StepTable : b <= StepTable[j][1] => i <= j][2]
  ELSE 8

\* bit lengths at most 2 away from a step, the short ones and the longest
WinBits ==
  {b \in 0..MaxBits :
     \/ b <= 9
     \/ b = MaxBits
     \/ \E i \in DOMAIN StepTable : b \in (StepTable[i][1] - 2)..(StepTable[i][1] + 2)}

\* the normalised mp_int 2^(b-1), of bit length b, for digits of db bits
LongInt(b, db) ==
  LET u == (b + db - 1) \div db
  IN [used |-> u,
      dp |-> [i \in 0..(u - 1) |-> IF i = u - 1 THEN Pow2((b - 1) % db) ELSE 0]]

WinInit ==
  /\ DIGIT_BIT \in DigitBits
  /\ G \in {MaxG}
  /\ P \in {MaxP}
  /\ \E b \in WinBits : X = LongInt(b, DIGIT_BIT)
  /\ Y \in {MaxP + 1}
  /\ Entry
  /\ disp = NoDisp

\* lines 46-71 of f_mp_exptmod: the window size and the slot allocation
WinNext == FindWindowSize \/ InitSlot

WinSpec == WinInit /\ [][WinNext]_vars

\* C13: winsize is the step function of the exponent's bit length (7, 36,
\* 140, 450, 1303, 3529 -> 2..7, else 8), it lies in 2..8, no shorter
\* exponent gets a larger window and no longer one a smaller, and the
\* allocation loop initialises exactly the slots 0 .. 2^winsize - 1, at
\* most 256.
C13_WindowSize ==
  (pc # "start") =>
    LET b == mp_count_bits(X, DIGIT_BIT)
    IN /\ winsize = StepOf(b)
       /\ winsize \in 2..8
       /\ (pc = "init_M" /\ x = 0) =>
            /\ \A b2 \in 0..b : WinSize(b2) <= winsize
            /\ \A b2 \in b..MaxBits : WinSize(b2) >= winsize
       /\ DOMAIN M = 0..(Pow2(winsize) - 1)
       /\ Pow2(winsize) <= 256
       /\ (pc = "init_M" /\ fail.op = "none") =>
            \A k \in DOMAIN M : M[k].st = IF k < x THEN "live" ELSE "raw"
       /\ (pc = "init_mu") =>
            /\ x = Pow2(winsize)
            /\ \A k \in DOMAIN M : M[k].st = "live" /\ M[k].inits = 1

C13_Witness ==
  /\ pc = "init_mu" /\ winsize = 8 /\ x = 256 /\ mp_count_bits(X, DIGIT_BIT) = 3530
  /\ M[255].st = "live"

\* ------------------------------------------------------------- the scan
ScanPcs == {"scan", "sq_sqr", "sq_reduce", "win_sqr", "win_reduce", "win_mul",
            "win_mul_reduce"}
FlushPcs == {"fl_sqr", "fl_reduce", "fl_mul", "fl_mul_reduce"}

\* exponent bits not yet extracted
BitsLeft == (digidx + 1) * DIGIT_BIT + (bitcnt - 1)

\* a variant of the scan, the flush and the cleanup: steps left, at most
ScanMeasure ==
  LET K == 2 * winsize + 4
      Offs == 4 * winsize + 5
      sub == CASE pc = "scan" -> 0
               [] pc = "sq_sqr" -> 2
               [] pc = "sq_reduce" -> 1
               [] pc = "win_sqr" -> 2 + 2 * (winsize - x)
               [] pc = "win_reduce" -> 1 + 2 * (winsize - x)
               [] pc = "win_mul" -> 2
               [] pc = "win_mul_reduce" -> 1
               [] OTHER -> 0
  IN CASE pc \in ScanPcs -> Offs + BitsLeft * K + sub
       [] pc = "fl_sqr" -> 4 * (bitcpy - x) + 4
       [] pc = "fl_reduce" -> 4 * (bitcpy - x) + 3
       [] pc = "fl_mul" -> 4 * (bitcpy - x) + 2
       [] pc = "fl_mul_reduce" -> 4 * (bitcpy - x) + 1
       [] pc = "exch" -> 4
       [] pc = "__RES" -> 3
       [] pc = "__MU" -> 2
       [] pc = "__M" -> 1
       [] OTHER -> 0

C11_State ==
  /\ (pc \in ScanPcs) =>
       /\ nbits + BitsLeft = X.used * DIGIT_BIT
       /\ digidx \in -1..(X.used - 1)
       /\ bitcnt \in 1..DIGIT_BIT
       /\ nbits = (X.used - 1 - digidx) * DIGIT_BIT - (bitcnt - 1)
  /\ (pc \in FlushPcs \cup {"exch"}) =>
       (nbits = X.used * DIGIT_BIT /\ digidx = -1)
  /\ (pc \in FlushPcs) => (mark.kind = "flush" /\ x < bitcpy)
  /\ (pc = "exch" /\ mode = 2 /\ bitcpy > 0) => (mark.kind = "flush" /\ x = bitcpy)
  /\ (Returned /\ fail.op = "none") =>
       (nbits = X.used * DIGIT_BIT /\ digidx = -1 /\ bitcpy \in {0, mark.n})
  /\ (pc \in ScanPcs \cup FlushPcs \cup {"exch"} \cup CleanupPcs) => ScanMeasure >= 0
  /\ (pc \in ScanPcs \cup FlushPcs \cup {"exch"}) => ENABLED Next

C11_Step ==
  /\ (pc \in ScanPcs \cup FlushPcs \cup {"exch", "__RES", "__MU", "__M"}) =>
       ScanMeasure' < ScanMeasure
  /\ (pc \in ScanPcs) => (digidx' \in {digidx, digidx - 1})
  /\ (pc \in ScanPcs /\ digidx' # digidx) => (nbits % DIGIT_BIT = 0)

\* C11: the scan terminates: every step of the scan, the flush and the
\* cleanup lowers a natural-valued measure and none of them is stuck; the
\* loop extracts X.used * DIGIT_BIT bits, digidx steps down by one per digit
\* from X.used - 1 to -1, and a run without failure returns only after all
\* digits are consumed and an open window has been flushed.
C11_ScanTerminates == []C11_State /\ [][C11_Step]_vars

C11_Witness ==
  /\ Returned /\ fail.op = "none" /\ X.used = 2 /\ nbits = 2 * DIGIT_BIT
  /\ mark.kind = "flush" /\ mark.n = 2 /\ digidx = -1

\* C14 as stated: after each exponent bit has been processed, res is
\* G^(value of the bits consumed so far) modulo P.
C14_ResIsPowerOfConsumed ==
  (pc = "scan" /\ nbits > 0) => res.v % P = PowMod(G, seen, P)

\* C14, amended: at every iteration boundary res is congruent modulo P to
\* G^(value of the bits consumed before the open window began); that is
\* G^(bits consumed so far) when no window is open, and in Squaring mode res
\* is that power reduced modulo P.
C14_ResLagsOpenWindow ==
  (pc = "scan") =>
    /\ res.v % P = PowMod(G, Shr(seen, bitcpy), P)
    /\ (mode = SquaringMode) => res.v = PowMod(G, seen, P)

C14_Witness ==
  /\ pc = "scan" /\ winsize = 3 /\ bitcpy = 2 /\ nwin = 1
  /\ res.v % P # PowMod(G, seen, P)
  /\ res.v % P = PowMod(G, Shr(seen, 2), P)

\* C15: at every iteration boundary, with n = bitcpy bits in the open window
\* and v = bitbuf >> (winsize - n) their value, res^(2^n) * G^v is congruent
\* modulo P to G^(bits consumed so far); with no window open bitbuf = 0, the
\* mode is 0 or 1 and res itself is congruent to it; 0 <= bitcpy < winsize.
C15_WindowInvariant ==
  (pc = "scan") =>
    LET n == bitcpy
        v == Shr(bitbuf, winsize - n)
    IN /\ 0 <= bitcpy /\ bitcpy < winsize
       /\ (PowMod(res.v, Pow2(n), P) * PowMod(G, v, P)) % P = PowMod(G, seen, P)
       /\ (bitcpy = 0) =>
            /\ mode \in {SkipMode, SquaringMode}
            /\ bitbuf = 0
            /\ res.v % P = PowMod(G, seen, P)
       /\ (bitcpy > 0) => v = seen % Pow2(n)

C15_Witness ==
  /\ pc = "scan" /\ winsize = 3 /\ bitcpy = 2 /\ bitbuf = 6 /\ nwin = 1
  /\ G = 3 /\ P = 7 /\ res.v = 2 /\ seen = 131

\* the operations a full window of value v applies to res, in order
RECURSIVE SqReds(_)
SqReds(n) == IF n = 0 THEN << >> ELSE <<(<<"sqr", 0>>), (<<"reduce", 0>>)>> \o SqReds(n - 1)
WinOps(w, v) == SqReds(w) \o <<(<<"mul", v>>), (<<"reduce", 0>>)>>
IsPrefix(s, t) == Len(s) <= Len(t) /\ s = SubSeq(t, 1, Len(s))
Since(len) == SubSeq(trace, len + 1, Len(trace))
WinPcs == {"win_sqr", "win_reduce", "win_mul", "win_mul_reduce"}

\* C16: a full window applies winsize square-and-reduce steps to res and
\* only then one multiply-and-reduce by M[window value], leaving
\* res^(2^winsize) * G^(window value) mod P; bitbuf and bitcpy are then 0
\* and the mode is Squaring; a zero bit scanned in Squaring mode applies
\* exactly one square-and-reduce and opens no window.
C16_FullWindow ==
  /\ (pc \in WinPcs) =>
       /\ mark.kind = "win" /\ mark.n = winsize /\ mark.val = bitbuf
       /\ Len(Since(mark.len)) < Len(WinOps(winsize, mark.val))
       /\ IsPrefix(Since(mark.len), WinOps(winsize, mark.val))
  /\ (pc = "win_mul") => Since(mark.len) = SqReds(winsize)
  /\ (pc = "scan" /\ mark.kind = "win") =>
       /\ Since(mark.len) = WinOps(winsize, mark.val)
       /\ res.v = (PowMod(mark.r, Pow2(winsize), P) * PowMod(G, mark.val, P)) % P
       /\ bitbuf = 0 /\ bitcpy = 0 /\ mode = SquaringMode
  /\ (pc \in {"sq_sqr", "sq_reduce"}) =>
       /\ mark.kind = "sq" /\ y = 0
       /\ IsPrefix(Since(mark.len), SqReds(1))
  /\ (pc = "scan" /\ mark.kind = "sq") =>
       /\ Since(mark.len) = SqReds(1)
       /\ res.v = (mark.r * mark.r) % P
       /\ bitbuf = 0 /\ bitcpy = 0 /\ mode = SquaringMode

\* a zero bit right after the first full window (bits 1,0,0 then 0)
C16_Witness ==
  /\ pc = "scan" /\ mark.kind = "sq" /\ winsize = 3 /\ nwin = 1 /\ seen = 8
  /\ trace = WinOps(3, 4) \o SqReds(1)
  /\ G = 3 /\ P = 7 /\ res.v = PowMod(3, 8, 7)

\* the operations the flush applies to res for a trailing window of n bits
\* of value v, most significant bit first
RECURSIVE FlushOps(_, _)
FlushOps(n, v) ==
  IF n = 0 THEN << >>
  ELSE SqReds(1)
       \o (IF BitAnd(Shr(v, n - 1), 1) = 1
           THEN <<(<<"mul", 1>>), (<<"reduce", 0>>)>> ELSE << >>)
       \o FlushOps(n - 1, v % Pow2(n - 1))
TrailingValue == Shr(mark.val, winsize - mark.n)

\* C17: a scan that ends with a partial window of n bits (1 <= n <= winsize-1)
\* of value v is followed by exactly n square-and-reduce steps, each followed
\* by a multiply-and-reduce by M[1] exactly when the corresponding window bit,
\* most significant first, is 1; res becomes res^(2^n) * G^v mod P and the
\* result of a run without failure agrees with the naive reference.
C17_Flush ==
  /\ (pc \in FlushPcs) =>
       /\ mark.kind = "flush" /\ mark.n = bitcpy
       /\ 1 <= mark.n /\ mark.n <= winsize - 1
       /\ TrailingValue = seen % Pow2(mark.n)
       /\ Len(Since(mark.len)) < Len(FlushOps(mark.n, TrailingValue))
       /\ IsPrefix(Since(mark.len), FlushOps(mark.n, TrailingValue))
  /\ (pc = "exch") => (mark.kind = "flush" <=> bitcpy > 0)
  /\ (pc = "exch" /\ mark.kind = "flush") =>
       /\ Since(mark.len) = FlushOps(mark.n, TrailingValue)
       /\ res.v = (PowMod(mark.r, Pow2(mark.n), P) * PowMod(G, TrailingValue, P)) % P
  /\ (Returned /\ fail.op = "none" /\ mark.kind = "flush") =>
       /\ ret = MP_OKAY
       /\ Y = NaiveExptMod(G, XVal, P)

\* exponent 130 = 1000 0010b: window 100, three zero bits, trailing bits 1,0
C17_Witness ==
  /\ Returned /\ fail.op = "none" /\ mark.kind = "flush"
  /\ winsize = 3 /\ mark.n = 2 /\ TrailingValue = 2 /\ XVal = 130
  /\ Since(mark.len) = <<(<<"sqr", 0>>), (<<"reduce", 0>>), (<<"mul", 1>>),
                         (<<"reduce", 0>>), (<<"sqr", 0>>), (<<"reduce", 0>>)>>
  /\ G = 3 /\ P = 7 /\ Y = NaiveExptMod(3, 130, 7)

\* the operations on res for an exponent of value e, written without
\* digits: k is the number of low bits of e still to scan, the first set
\* bit having been reached
RECURSIVE RefOps(_, _, _)
RefOps(e, k, w) ==
  IF k = 0 THEN << >>
  ELSE IF BitAnd(Shr(e, k - 1), 1) = 0 THEN SqReds(1) \o RefOps(e, k - 1, w)
  ELSE IF k >= w THEN WinOps(w, Shr(e, k - w) % Pow2(w)) \o RefOps(e, k - w, w)
  ELSE FlushOps(k, e % Pow2(k))

\* the value a sequence of operations leaves in res, starting from r
RECURSIVE ApplyOps(_, _)
ApplyOps(r, ops) ==
  IF ops = << >> THEN r
  ELSE LET o == Head(ops)
           r1 == IF o[1] = "sqr" THEN mp_sqr(r)
                 ELSE IF o[1] = "mul" THEN mp_mul(r, PowMod(G, o[2], P))
                 ELSE mp_reduce(r, P)
       IN ApplyOps(r1, Tail(ops))

TotalBits == X.used * DIGIT_BIT

\* C18: the bits scanned are the binary expansion of X, most significant
\* digit first and most significant bit first within a digit, DIGIT_BIT bits
\* per digit; the operations applied to res, and the result, are those of
\* the exponent's value and do not depend on the digit width.
C18_BitOrder ==
  /\ (pc \in ScanPcs) =>
       /\ nbits = TotalBits - BitsLeft
       /\ nbits <= TotalBits
       /\ seen = Shr(XVal, TotalBits - nbits)
       /\ (nbits > 0) => y = seen % 2
  /\ (pc \in FlushPcs \cup {"exch"}) => (nbits = TotalBits /\ seen = XVal)
  /\ (pc = "exch") =>
       /\ trace = RefOps(XVal, BitLen(XVal), winsize)
       /\ res.v = ApplyOps(1, trace)
  /\ (Returned /\ fail.op = "none") =>
       /\ trace = RefOps(XVal, BitLen(XVal), winsize)
       /\ Y = ApplyOps(1, trace)

\* a window that began on the last bit of the top 7-bit digit and was
\* completed by the first two bits of the next digit
C18_Witness ==
  /\ pc = "scan" /\ mark.kind = "win" /\ nwin = 1
  /\ DIGIT_BIT = 7 /\ X.used = 2 /\ winsize = 3
  /\ nbits = DIGIT_BIT + 2 /\ seen = 4 /\ mark.val = 4

\* C19: until the first 1 bit is scanned the mode is 0, res is 1 and no
\* operation has been applied to res; once a 1 bit has been scanned the mode
\* is 1 or 2 for the rest of the scan and the flush; at an iteration boundary
\* the mode is 2 exactly when a partial window is open.
C19_Modes ==
  /\ (pc \in ScanPcs \cup FlushPcs \cup {"exch"}) =>
       /\ mode \in {SkipMode, SquaringMode, AccMode}
       /\ (seen = 0) => (mode = SkipMode /\ res.v = 1 /\ trace = << >>
                         /\ pc \in {"scan", "exch"} /\ bitcpy = 0)
       /\ (seen > 0) => mode \in {SquaringMode, AccMode}
  /\ (pc = "scan") => (mode = AccMode <=> bitcpy > 0)

\* the first 1 bit, scanned after leading zero bits were skipped
C19_Witness ==
  /\ pc = "scan" /\ nbits > 1 /\ seen = 1 /\ mark.kind = "acc"
  /\ mode = AccMode /\ bitcpy = 1 /\ res.v = 1 /\ trace = << >>

\* number of operations of kind k in the trace, and number of 1 bits of v
OpCount(k) == Cardinality({i \in 1..Len(trace) : trace[i][1] = k})
RECURSIVE PopCount(_)
PopCount(v) == IF v = 0 THEN 0 ELSE (v % 2) + PopCount(v \div 2)

\* C20: on a successful run the number of squarings applied to res is the
\* bit length of X (none for X = 0) and the number of multiplications is
\* the number of full windows plus the number of 1 bits of the trailing
\* partial window; at every iteration boundary the squarings so far are one
\* per scanned bit from the first set bit on, less the bits of the open
\* window, and the multiplications one per full window.
C20_OperationCounts ==
  /\ (pc = "scan") =>
       /\ OpCount("sqr") = BitLen(seen) - bitcpy
       /\ OpCount("mul") = nwin
  /\ (pc = "exch" \/ (Returned /\ fail.op = "none")) =>
       /\ OpCount("sqr") = BitLen(XVal)
       /\ OpCount("mul") = nwin + (IF mark.kind = "flush"
                                   THEN PopCount(TrailingValue) ELSE 0)
       /\ OpCount("reduce") = OpCount("sqr") + OpCount("mul")

\* exponent 131 = 1000 0011b: one full window and a trailing window 1,1
C20_Witness ==
  /\ Returned /\ fail.op = "none" /\ ret = MP_OKAY /\ XVal = 131
  /\ nwin = 1 /\ mark.kind = "flush" /\ PopCount(TrailingValue) = 2
  /\ OpCount("sqr") = 8 /\ OpCount("mul") = 3

====
